---- MODULE Spec2Model ----
(***************************************************************************)
(* Character rig tooling of the Eustress engine: the three Blender batch   *)
(* scripts merge_animations.py, convert_fbx_to_glb.py and clean_ybot.py.   *)
(* The Blender scene (bpy.context.scene.objects, bpy.data.actions, the     *)
(* selection) is the shared state every step mutates; the files on disk    *)
(* are the inputs.                                                         *)
(***************************************************************************)
EXTENDS Integers, Sequences, FiniteSets, TLC

(* Bounds of the inputs.  MaxJobs: the directories convert_fbx_to_glb.py   *)
(* is run on (Directories).  MaxBones, MaxChain: the bones of a skeleton.  *)
MaxJobs == 3
MaxBones == 1
MaxChain == 3

(* merge_animations.py: (FBX name, action name for Bevy). *)
ANIMATIONS ==
  << <<"Female Idle.fbx", "Idle">>,
     <<"Female Walking.fbx", "Walk">>,
     <<"Female Running.fbx", "Run">>,
     <<"Sprint.fbx", "Sprint">>,
     <<"Female Jump.fbx", "Jump">> >>

(* convert_fbx_to_glb.py: list of FBX files to convert. *)
fbx_files ==
  << <<"Female Idle.fbx", "female_idle.glb">>,
     <<"Female Jump.fbx", "female_jump.glb">>,
     <<"Female Running.fbx", "female_running.glb">>,
     <<"Female Walking.fbx", "female_walking.glb">>,
     <<"Male Idle.fbx", "male_idle.glb">>,
     <<"Male Jump.fbx", "male_jump.glb">>,
     <<"Male Running.fbx", "male_running.glb">>,
     <<"Male Walking.fbx", "male_walking.glb">>,
     <<"Sprint.fbx", "sprint.glb">> >>

(* Line 115: merge_animations_into_model(ybot_input, ybot_output,          *)
(* ANIMATIONS): the list the loop of line 50 iterates.                     *)
animation_files == ANIMATIONS

(* The list the loop of convert_fbx_to_glb.py (line 169) iterates. *)
Worklist == fbx_files

(* Bone name mapping from Mixamo standard to Y-Bot format. *)
BONE_NAME_MAP ==
  <<
    <<"mixamorig:Hips", "mixamorig:Hips_01">>,
    <<"mixamorig:Spine", "mixamorig:Spine_02">>,
    <<"mixamorig:Spine1", "mixamorig:Spine1_03">>,
    <<"mixamorig:Spine2", "mixamorig:Spine2_04">>,
    <<"mixamorig:Neck", "mixamorig:Neck_05">>,
    <<"mixamorig:Head", "mixamorig:Head_06">>,
    <<"mixamorig:HeadTop_End", "mixamorig:HeadTop_End_07">>,
    <<"mixamorig:LeftShoulder", "mixamorig:LeftShoulder_08">>,
    <<"mixamorig:LeftArm", "mixamorig:LeftArm_09">>,
    <<"mixamorig:LeftForeArm", "mixamorig:LeftForeArm_010">>,
    <<"mixamorig:LeftHand", "mixamorig:LeftHand_011">>,
    <<"mixamorig:LeftHandThumb1", "mixamorig:LeftHandThumb1_012">>,
    <<"mixamorig:LeftHandThumb2", "mixamorig:LeftHandThumb2_013">>,
    <<"mixamorig:LeftHandThumb3", "mixamorig:LeftHandThumb3_014">>,
    <<"mixamorig:LeftHandThumb4", "mixamorig:LeftHandThumb4_015">>,
    <<"mixamorig:LeftHandIndex1", "mixamorig:LeftHandIndex1_016">>,
    <<"mixamorig:LeftHandIndex2", "mixamorig:LeftHandIndex2_017">>,
    <<"mixamorig:LeftHandIndex3", "mixamorig:LeftHandIndex3_018">>,
    <<"mixamorig:LeftHandIndex4", "mixamorig:LeftHandIndex4_019">>,
    <<"mixamorig:LeftHandMiddle1", "mixamorig:LeftHandMiddle1_020">>,
    <<"mixamorig:LeftHandMiddle2", "mixamorig:LeftHandMiddle2_021">>,
    <<"mixamorig:LeftHandMiddle3", "mixamorig:LeftHandMiddle3_022">>,
    <<"mixamorig:LeftHandMiddle4", "mixamorig:LeftHandMiddle4_023">>,
    <<"mixamorig:LeftHandRing1", "mixamorig:LeftHandRing1_024">>,
    <<"mixamorig:LeftHandRing2", "mixamorig:LeftHandRing2_025">>,
    <<"mixamorig:LeftHandRing3", "mixamorig:LeftHandRing3_026">>,
    <<"mixamorig:LeftHandRing4", "mixamorig:LeftHandRing4_027">>,
    <<"mixamorig:LeftHandPinky1", "mixamorig:LeftHandPinky1_028">>,
    <<"mixamorig:LeftHandPinky2", "mixamorig:LeftHandPinky2_029">>,
    <<"mixamorig:LeftHandPinky3", "mixamorig:LeftHandPinky3_030">>,
    <<"mixamorig:LeftHandPinky4", "mixamorig:LeftHandPinky4_031">>,
    <<"mixamorig:RightShoulder", "mixamorig:RightShoulder_032">>,
    <<"mixamorig:RightArm", "mixamorig:RightArm_033">>,
    <<"mixamorig:RightForeArm", "mixamorig:RightForeArm_034">>,
    <<"mixamorig:RightHand", "mixamorig:RightHand_035">>,
    <<"mixamorig:RightHandThumb1", "mixamorig:RightHandThumb1_036">>,
    <<"mixamorig:RightHandThumb2", "mixamorig:RightHandThumb2_037">>,
    <<"mixamorig:RightHandThumb3", "mixamorig:RightHandThumb3_038">>,
    <<"mixamorig:RightHandThumb4", "mixamorig:RightHandThumb4_039">>,
    <<"mixamorig:RightHandIndex1", "mixamorig:RightHandIndex1_040">>,
    <<"mixamorig:RightHandIndex2", "mixamorig:RightHandIndex2_041">>,
    <<"mixamorig:RightHandIndex3", "mixamorig:RightHandIndex3_042">>,
    <<"mixamorig:RightHandIndex4", "mixamorig:RightHandIndex4_043">>,
    <<"mixamorig:RightHandMiddle1", "mixamorig:RightHandMiddle1_044">>,
    <<"mixamorig:RightHandMiddle2", "mixamorig:RightHandMiddle2_045">>,
    <<"mixamorig:RightHandMiddle3", "mixamorig:RightHandMiddle3_046">>,
    <<"mixamorig:RightHandMiddle4", "mixamorig:RightHandMiddle4_047">>,
    <<"mixamorig:RightHandRing1", "mixamorig:RightHandRing1_048">>,
    <<"mixamorig:RightHandRing2", "mixamorig:RightHandRing2_049">>,
    <<"mixamorig:RightHandRing3", "mixamorig:RightHandRing3_050">>,
    <<"mixamorig:RightHandRing4", "mixamorig:RightHandRing4_051">>,
    <<"mixamorig:RightHandPinky1", "mixamorig:RightHandPinky1_052">>,
    <<"mixamorig:RightHandPinky2", "mixamorig:RightHandPinky2_053">>,
    <<"mixamorig:RightHandPinky3", "mixamorig:RightHandPinky3_054">>,
    <<"mixamorig:RightHandPinky4", "mixamorig:RightHandPinky4_055">>,
    <<"mixamorig:LeftUpLeg", "mixamorig:LeftUpLeg_056">>,
    <<"mixamorig:LeftLeg", "mixamorig:LeftLeg_057">>,
    <<"mixamorig:LeftFoot", "mixamorig:LeftFoot_058">>,
    <<"mixamorig:LeftToeBase", "mixamorig:LeftToeBase_059">>,
    <<"mixamorig:LeftToe_End", "mixamorig:LeftToe_End_060">>,
    <<"mixamorig:RightUpLeg", "mixamorig:RightUpLeg_061">>,
    <<"mixamorig:RightLeg", "mixamorig:RightLeg_062">>,
    <<"mixamorig:RightFoot", "mixamorig:RightFoot_063">>,
    <<"mixamorig:RightToeBase", "mixamorig:RightToeBase_064">>,
    <<"mixamorig:RightToe_End", "mixamorig:RightToe_End_065">>
  >>

NoName == ""

BoneKeys == {BONE_NAME_MAP[r][1] : r \in DOMAIN BONE_NAME_MAP}

BoneValues == {BONE_NAME_MAP[r][2] : r \in DOMAIN BONE_NAME_MAP}

(* BONE_NAME_MAP[name] of a key. *)
Lookup(n) == BONE_NAME_MAP[CHOOSE r \in DOMAIN BONE_NAME_MAP : BONE_NAME_MAP[r][1] = n][2]

(* Faulty variant: one value of the table is itself a key (Spine -> Spine1). *)
translateTypo(n) ==
  IF n = "mixamorig:Spine" THEN "mixamorig:Spine1"
  ELSE IF n \in BoneKeys THEN Lookup(n) ELSE n

(* Faulty variant: a name that is no key gets no name (a lookup without default). *)
translateNoDefault(n) == IF n \in BoneKeys THEN Lookup(n) ELSE NoName

(* Faulty variant: two keys of the table carry the same value (the entry   *)
(* of the right hand is a copy of the left hand's).                        *)
translateCopied(n) ==
  IF n = "mixamorig:RightHand" THEN Lookup("mixamorig:LeftHand")
  ELSE IF n \in BoneKeys THEN Lookup(n) ELSE n

(* Lines 106-108 on one bone name: a key is replaced by its value, any     *)
(* other name is left alone.                                               *)
translate(n) == IF n \in BoneKeys THEN Lookup(n) ELSE n

(***************************************************************************)
(* Objects, files and the scene                                            *)
(***************************************************************************)

(* An object is identified by <<job, source, k>>: the k-th object of the   *)
(* file imported as source `source` (0: the job's main asset) by job       *)
(* `job` (0: Blender's startup scene).                                     *)
NoId == <<0, 0, 0>>

Bone(n, p) == [name |-> n, parent |-> p]

FileObject(t, n, a, b, p, l) ==
  [type |-> t, name |-> n, anim |-> a, bones |-> b, parent |-> p, local |-> l]

MixamoBones ==
  << Bone("mixamorig:Hips", NoName), Bone("mixamorig:Spine", "mixamorig:Hips") >>

MixedBones ==
  << Bone("Root", NoName), Bone("mixamorig:Hips_01", "Root"),
     Bone("mixamorig:LeftToe_End", "mixamorig:Hips_01") >>

YBotBones ==
  << Bone("_rootJoint", NoName), Bone("mixamorig:Hips_01", "_rootJoint"),
     Bone("mixamorig:Spine_02", "mixamorig:Hips_01") >>

CleanBones ==
  << Bone("mixamorig:Hips_01", NoName), Bone("mixamorig:Spine_02", "mixamorig:Hips_01") >>

(* A skeleton whose _rootJoint has two direct children. *)
ForkedBones ==
  << Bone("_rootJoint", NoName), Bone("mixamorig:Hips_01", "_rootJoint"),
     Bone("Prop_Root", "_rootJoint") >>

(* Motion sources (FBX files) a run may find on disk: a Mixamo download    *)
(* with skin, one without skin, a pose without animation, a file without a *)
(* skeleton, and files that carry two skeletons.                           *)
FbxAssets ==
  { << FileObject("ARMATURE", "Armature", TRUE, MixamoBones, 0, 0),
       FileObject("MESH", "Beta_Surface", FALSE, << >>, 1, 0) >>,
    << FileObject("ARMATURE", "Armature", TRUE, MixedBones, 0, 0) >>,
    << FileObject("ARMATURE", "Armature", FALSE, MixamoBones, 0, 0),
       FileObject("MESH", "Beta_Surface", FALSE, << >>, 1, 0) >>,
    << FileObject("MESH", "Beta_Surface", FALSE, << >>, 0, 0) >>,
    << FileObject("ARMATURE", "Armature", TRUE, MixamoBones, 0, 0),
       FileObject("ARMATURE", "Prop", TRUE, MixedBones, 0, 0) >>,
    << FileObject("ARMATURE", "Prop", FALSE, MixedBones, 0, 0),
       FileObject("ARMATURE", "Armature", TRUE, MixamoBones, 0, 0) >> }

(* Base models (GLB files): the Y-Bot as the interchange format delivers   *)
(* it (wrapper node, synthetic root joint), an already clean animated      *)
(* model, a file without a skeleton, a file with two skeletons and a model *)
(* whose synthetic root joint has two children.                            *)
GlbAssets ==
  { << FileObject("EMPTY", "RootNode", FALSE, << >>, 0, 1),
       FileObject("ARMATURE", "Armature.001", FALSE, YBotBones, 1, 2),
       FileObject("MESH", "Alpha_Surface", FALSE, << >>, 2, 0) >>,
    << FileObject("ARMATURE", "Armature", TRUE, CleanBones, 0, 0),
       FileObject("MESH", "Alpha_Surface", FALSE, << >>, 1, 0) >>,
    << FileObject("MESH", "Alpha_Surface", FALSE, << >>, 0, 0) >>,
    << FileObject("ARMATURE", "Armature", FALSE, CleanBones, 0, 0),
       FileObject("ARMATURE", "Rig", TRUE, MixamoBones, 0, 3),
       FileObject("MESH", "Alpha_Surface", FALSE, << >>, 1, 0) >>,
    << FileObject("ARMATURE", "Armature", FALSE, ForkedBones, 0, 0),
       FileObject("MESH", "Alpha_Surface", FALSE, << >>, 1, 0) >> }

(* A path of the file system: absent, or a file with its contents. *)
Missing == [exists |-> FALSE, readable |-> FALSE, asset |-> << >>]

Present(a) == [exists |-> TRUE, readable |-> TRUE, asset |-> a]

(* A file the importer raises on. *)
Unreadable == [exists |-> TRUE, readable |-> FALSE, asset |-> << >>]

(* The directories a script is run on, as the entries of its list whose    *)
(* FBX is on disk.  merge_animations.py: any of the five.                  *)
(* convert_fbx_to_glb.py: any of the first MaxJobs entries, or any         *)
(* MaxJobs - 2 entries of the nine.                                        *)
Directories(s) ==
  CASE s = "merge" -> SUBSET (1..Len(ANIMATIONS))
    [] s = "convert" ->
         {S \in SUBSET (1..Len(fbx_files)) :
            S \subseteq 1..MaxJobs \/ Cardinality(S) <= MaxJobs - 2}
    [] OTHER -> {{}}

(* Blender's startup scene, before any script statement has run. *)
StartupScene ==
  << [id |-> <<0, 0, 1>>, type |-> "MESH", name |-> "Cube", parent |-> NoId,
      local |-> 0, animData |-> FALSE, action |-> NoId, tracks |-> << >>,
      bones |-> << >>],
     [id |-> <<0, 0, 2>>, type |-> "LIGHT", name |-> "Light", parent |-> NoId,
      local |-> 0, animData |-> FALSE, action |-> NoId, tracks |-> << >>,
      bones |-> << >>],
     [id |-> <<0, 0, 3>>, type |-> "CAMERA", name |-> "Camera", parent |-> NoId,
      local |-> 0, animData |-> FALSE, action |-> NoId, tracks |-> << >>,
      bones |-> << >>] >>

(* The name an importer gives the action of an animated skeleton. *)
ImportedActionName == "mixamo.com"

(* bpy.ops.import_scene.gltf / import_scene.fbx: the objects of the file,  *)
(* in file order, as job j's source s.                                     *)
ImportedObjects(a, j, s) ==
  [k \in 1..Len(a) |->
     [id |-> <<j, s, k>>, type |-> a[k].type, name |-> a[k].name,
      parent |-> IF a[k].parent = 0 THEN NoId ELSE <<j, s, a[k].parent>>,
      local |-> a[k].local, animData |-> a[k].anim,
      action |-> IF a[k].anim THEN <<j, s, k>> ELSE NoId,
      tracks |-> << >>, bones |-> a[k].bones]]

ImportedActions(a, j, s) == {<<j, s, k>> : k \in {n \in 1..Len(a) : a[n].anim}}

(* bpy.data.actions after an import: the new actions under their file name. *)
WithActions(names, new) ==
  [x \in (DOMAIN names) \cup new |->
     IF x \in DOMAIN names THEN names[x] ELSE ImportedActionName]

Ids(sc) == {sc[k].id : k \in DOMAIN sc}

ObjectOf(sc, id) == sc[CHOOSE k \in DOMAIN sc : sc[k].id = id]

(* Indices of the skeleton objects of a scene other than `except`. *)
ArmatureIndices(sc, except) ==
  {k \in DOMAIN sc : sc[k].type = "ARMATURE" /\ sc[k].id # except}

(* Faulty variant: the scan does not leave out the object to be excepted. *)
FirstArmatureOfAll(sc, except) ==
  IF ArmatureIndices(sc, NoId) = {} THEN 0
  ELSE CHOOSE k \in ArmatureIndices(sc, NoId) :
         \A m \in ArmatureIndices(sc, NoId) : k <= m

(* for obj in bpy.context.scene.objects: if obj.type == 'ARMATURE' (and    *)
(* obj != except): ... break -- the index of the first such object, or 0.  *)
FirstArmature(sc, except) ==
  IF ArmatureIndices(sc, except) = {} THEN 0
  ELSE CHOOSE k \in ArmatureIndices(sc, except) :
         \A m \in ArmatureIndices(sc, except) : k <= m

(* bpy.data.objects.remove(obj, do_unlink=True): the object leaves the     *)
(* scene and its children lose their parent.                               *)
RemoveAt(sc, k) ==
  [m \in 1..(Len(sc) - 1) |->
     LET o == IF m < k THEN sc[m] ELSE sc[m + 1]
     IN IF o.parent = sc[k].id THEN [o EXCEPT !.parent = NoId] ELSE o]

(* The contents of an exported GLB: the skeletons' bone names, the number  *)
(* of meshes, the animations and the skeletons' active clip.               *)
RECURSIVE Flatten(_)
Flatten(ss) == IF ss = << >> THEN << >> ELSE Head(ss) \o Flatten(Tail(ss))

SelectSeq2(sc, t) == SelectSeq(sc, LAMBDA o : o.type = t)

BoneNames(o) == [b \in DOMAIN o.bones |-> o.bones[b].name]

ActiveClips(sc, names) ==
  LET arms == SelectSeq(sc, LAMBDA o : o.type = "ARMATURE" /\ o.action # NoId)
  IN [k \in DOMAIN arms |-> names[arms[k].action]]

TrackClips(sc) ==
  LET arms == SelectSeq2(sc, "ARMATURE")
  IN Flatten([k \in DOMAIN arms |->
                [t \in DOMAIN arms[k].tracks |-> arms[k].tracks[t].name]])

Exported(sc, names, mode) ==
  [skeletons |-> LET arms == SelectSeq2(sc, "ARMATURE")
                 IN [k \in DOMAIN arms |-> BoneNames(arms[k])],
   meshes |-> Len(SelectSeq2(sc, "MESH")),
   clips |-> IF mode = "NLA_TRACKS" THEN TrackClips(sc) ELSE ActiveClips(sc, names),
   active |-> ActiveClips(sc, names)]

VARIABLES
  script,      \* which script Blender was started with
  onDisk,      \* the entries of the script's list whose FBX path exists
  pc,          \* the statement the script is at
  job,         \* the job of the worklist being run (1-based)
  i,           \* merge: the entry of animation_files being imported (1-based)
  scene,       \* bpy.context.scene.objects, in iteration order
  actionName,  \* bpy.data.actions: action -> its name
  armature,    \* the script's `armature` variable (NoId: None)
  actions,     \* merge: the `actions` list
  selected,    \* the selected objects
  activeObj,   \* bpy.context.view_layer.objects.active
  files,       \* the paths looked up so far, as found on disk
  outputs,     \* the output files written: job -> contents
  log          \* the lines printed: <<what, job, n>>

vars ==
  <<script, onDisk, pc, job, i, scene, actionName, armature, actions, selected,
    activeObj, files, outputs, log>>

NoActions == [x \in {} |-> NoName]

NoOutputs == [x \in {} |-> 0]

ClearedScene == << >>

(* Faulty variant: the scene is not reset. *)
NoReset == UNCHANGED <<scene, actionName, selected, activeObj>>

(* bpy.ops.wm.read_factory_settings(use_empty=True): an empty scene, no    *)
(* data blocks, no selection.                                              *)
read_factory_settings ==
  /\ scene' = ClearedScene
  /\ actionName' = NoActions
  /\ selected' = {}
  /\ activeObj' = NoId

(* bpy.ops.object.select_all(action='SELECT') *)
select_all == selected' = Ids(scene)

Report(what, n) == log' = Append(log, <<what, job, n>>)

(* obj.<field> = ...: the scene with object o in the place of the object  *)
(* of the same identity.                                                   *)
Put(sc, o) == [k \in DOMAIN sc |-> IF sc[k].id = o.id THEN o ELSE sc[k]]

(***************************************************************************)
(* merge_animations.py                                                     *)
(***************************************************************************)

(* Line 27: clear scene. *)
MergeClear ==
  /\ script = "merge" /\ pc = "m_clear"
  /\ read_factory_settings
  /\ pc' = "m_import"
  /\ UNCHANGED <<script, onDisk, job, i, armature, actions, files, outputs, log>>

(* Lines 30-31: import the base model. *)
MergeImportModel ==
  /\ script = "merge" /\ pc = "m_import"
  /\ \E a \in GlbAssets :
       /\ scene' = scene \o ImportedObjects(a, job, 0)
       /\ actionName' = WithActions(actionName, ImportedActions(a, job, 0))
       /\ files' = Append(files, Present(a))
  /\ Report("importing_model", 0)
  /\ pc' = "m_find"
  /\ UNCHANGED <<script, onDisk, job, i, armature, actions, selected, activeObj, outputs>>

MergeFindArmature ==
  /\ script = "merge" /\ pc = "m_find"
  /\ LET k == FirstArmature(scene, NoId)
     IN IF k = 0
        THEN /\ armature' = NoId
             /\ Report("error_no_armature", 0)
             /\ pc' = "m_returned"
             /\ UNCHANGED <<actions, i>>
        ELSE /\ armature' = scene[k].id
             /\ Report("found_armature", 0)
             /\ actions' = << >>
             /\ i' = 1
             /\ pc' = "m_loop"
  /\ UNCHANGED <<script, onDisk, job, scene, actionName, selected, activeObj, files, outputs>>

(* Faulty variant: a missing FBX ends the loop (break instead of continue). *)
MergeSkipMissingBreaks ==
  /\ script = "merge" /\ pc = "m_loop" /\ i <= Len(animation_files)
  /\ i \notin onDisk
  /\ files' = Append(files, Missing)
  /\ Report("skipping", i)
  /\ i' = Len(animation_files) + 1
  /\ UNCHANGED <<script, onDisk, pc, job, scene, actionName, armature, actions, selected,
                 activeObj, outputs>>

(* Lines 50-54: the FBX of entry i is not on disk: skip the entry. *)
MergeSkipMissing ==
  /\ script = "merge" /\ pc = "m_loop" /\ i <= Len(animation_files)
  /\ i \notin onDisk
  /\ files' = Append(files, Missing)
  /\ Report("skipping", i)
  /\ i' = i + 1
  /\ UNCHANGED <<script, onDisk, pc, job, scene, actionName, armature, actions, selected,
                 activeObj, outputs>>

(* Lines 50-63: the FBX of entry i is on disk: import it. *)
MergeImportFbx ==
  /\ script = "merge" /\ pc = "m_loop" /\ i <= Len(animation_files)
  /\ i \in onDisk
  /\ \E a \in FbxAssets :
       /\ scene' = scene \o ImportedObjects(a, job, i)
       /\ actionName' = WithActions(actionName, ImportedActions(a, job, i))
       /\ files' = Append(files, Present(a))
  /\ Report("importing_animation", i)
  /\ pc' = "m_scan"
  /\ UNCHANGED <<script, onDisk, job, i, armature, actions, selected, activeObj, outputs>>

(* Faulty variant: a skeleton without action ends the job with an error. *)
MergeTakeActionStrict ==
  /\ script = "merge" /\ pc = "m_scan"
  /\ LET k == FirstArmature(scene, armature)
         action_name == animation_files[i][2]
     IN IF k = 0
        THEN UNCHANGED <<scene, actionName, actions, log>> /\ pc' = "m_loop"
        ELSE /\ IF scene[k].animData /\ scene[k].action # NoId
                THEN /\ actionName' = [actionName EXCEPT ![scene[k].action] = action_name]
                     /\ actions' = Append(actions, scene[k].action)
                     /\ Report("found_action", i)
                     /\ pc' = "m_loop"
                ELSE /\ UNCHANGED <<actionName, actions>>
                     /\ Report("no_animation", i)
                     /\ pc' = "m_returned"
             /\ scene' = RemoveAt(scene, k)
  /\ i' = i + 1
  /\ UNCHANGED <<script, onDisk, job, armature, selected, activeObj, files, outputs>>

(* Lines 65-76: the first skeleton object other than the target: its       *)
(* action, if it has one, is renamed and kept; the object is removed.      *)
MergeTakeAction ==
  /\ script = "merge" /\ pc = "m_scan"
  /\ LET k == FirstArmature(scene, armature)
         action_name == animation_files[i][2]
     IN IF k = 0
        THEN UNCHANGED <<scene, actionName, actions, log>>
        ELSE /\ IF scene[k].animData /\ scene[k].action # NoId
                THEN /\ actionName' = [actionName EXCEPT ![scene[k].action] = action_name]
                     /\ actions' = Append(actions, scene[k].action)
                     /\ Report("found_action", i)
                ELSE UNCHANGED <<actionName, actions, log>>
             /\ scene' = RemoveAt(scene, k)
  /\ i' = i + 1
  /\ pc' = "m_loop"
  /\ UNCHANGED <<script, onDisk, job, armature, selected, activeObj, files, outputs>>

(* Faulty variant: the tracks are pushed in reverse order. *)
NlaTracksReversed(as, names) ==
  [k \in DOMAIN as |->
     [name |-> names[as[Len(as) + 1 - k]], action |-> as[Len(as) + 1 - k]]]

(* Lines 83-88: one NLA track per action, named after the action. *)
NlaTracks(as, names) == [k \in DOMAIN as |-> [name |-> names[as[k]], action |-> as[k]]]

(* Faulty variant: the active action is set without the `if actions` guard. *)
ActiveActionUnguarded(as, old) == IF as # << >> THEN as[1] ELSE NoId

(* Lines 90-92: the first action becomes the active one. *)
ActiveAction(as, old) == IF as # << >> THEN as[1] ELSE old

(* Lines 78-92: animation data, NLA tracks and active action of the target. *)
MergePushTracks ==
  /\ script = "merge" /\ pc = "m_loop" /\ i > Len(animation_files)
  /\ scene' = Put(scene, [ObjectOf(scene, armature) EXCEPT
                            !.animData = TRUE,
                            !.tracks = @ \o NlaTracks(actions, actionName),
                            !.action = ActiveAction(actions, @)])
  /\ Report("added_tracks", Len(actions))
  /\ pc' = "m_export"
  /\ UNCHANGED <<script, onDisk, job, i, actionName, armature, actions, selected, activeObj,
                 files, outputs>>

(* Lines 94-109: select everything and export the GLB with its NLA tracks. *)
MergeExport ==
  /\ script = "merge" /\ pc = "m_export"
  /\ select_all
  /\ activeObj' = armature
  /\ outputs' = (job :> Exported(scene, actionName, "NLA_TRACKS")) @@ outputs
  /\ Report("done", Len(actions))
  /\ pc' = "m_returned"
  /\ UNCHANGED <<script, onDisk, job, i, scene, actionName, armature, actions, files>>

(* An import or the export raises: nothing catches it in this script, so   *)
(* Blender prints the traceback and the script ends.  The line before the  *)
(* import (30, 56) has been printed by then.  The path of the base model   *)
(* is not tested (line 31), so it may be absent; the path of an FBX is     *)
(* (line 52), so an FBX whose import raises is on disk.                    *)
MergeRaise ==
  /\ script = "merge" /\ pc \in {"m_import", "m_loop", "m_export"}
  /\ CASE pc = "m_import" ->
            /\ \E f \in {Missing, Unreadable} : files' = Append(files, f)
            /\ log' = log \o << <<"importing_model", job, 0>>, <<"traceback", job, 0>> >>
            /\ UNCHANGED <<selected, activeObj>>
       [] pc = "m_loop" ->
            /\ i <= Len(animation_files)
            /\ i \in onDisk
                      /\ files' = Append(files, Unreadable)
            /\ log' = log \o << <<"importing_animation", job, i>>, <<"traceback", job, 0>> >>
            /\ UNCHANGED <<selected, activeObj>>
       [] OTHER ->
            /\ select_all /\ activeObj' = armature /\ UNCHANGED files
            /\ Report("traceback", 0)
  /\ pc' = "m_crashed"
  /\ UNCHANGED <<script, onDisk, job, i, scene, actionName, armature, actions, outputs>>

(* Lines 115-119: the closing lines after the call. *)
MergeComplete ==
  /\ script = "merge" /\ pc = "m_returned"
  /\ Report("merge_complete", 0)
  /\ pc' = "exit"
  /\ UNCHANGED <<script, onDisk, job, i, scene, actionName, armature, actions, selected,
                 activeObj, files, outputs>>

NextMerge ==
  \/ MergeClear \/ MergeImportModel \/ MergeFindArmature \/ MergeSkipMissing
  \/ MergeImportFbx \/ MergeTakeAction \/ MergePushTracks \/ MergeExport
  \/ MergeRaise \/ MergeComplete

(***************************************************************************)
(* convert_fbx_to_glb.py                                                   *)
(***************************************************************************)

Digits == <<"0", "1", "2", "3", "4", "5", "6", "7", "8", "9">>

RECURSIVE Decimal(_)
Decimal(k) ==
  IF k < 10 THEN Digits[k + 1] ELSE Decimal(k \div 10) \o Digits[(k % 10) + 1]

(* The k-th suffix of a name in use: a dot and k in at least three digits. *)
Suffix(k) ==
  "." \o (IF k < 10 THEN "00" ELSE IF k < 100 THEN "0" ELSE "") \o Decimal(k)

(* bone.name = new_name (line 108) assigns EditBone.name, which keeps the  *)
(* names of an armature's bones unique: a name another bone carries gets   *)
(* the first suffix .001, .002, ... that makes it free (one of the first   *)
(* Cardinality(used) + 1 is).  The table's names end in no such suffix.    *)
UniqueName(n, used) ==
  IF n \notin used THEN n
  ELSE n \o Suffix(CHOOSE k \in 1..(Cardinality(used) + 1) :
                     /\ (n \o Suffix(k)) \notin used
                     /\ \A m \in 1..(k - 1) : (n \o Suffix(m)) \in used)

(* Lines 105-109 on the bones' names, from bone b on, in the order of      *)
(* armature.data.edit_bones.                                               *)
RECURSIVE NamesFrom(_, _)
NamesFrom(names, b) ==
  IF b > Len(names) THEN names
  ELSE IF translate(names[b]) = names[b] THEN NamesFrom(names, b + 1)
  ELSE NamesFrom([names EXCEPT ![b] =
                    UniqueName(translate(names[b]),
                               {names[m] : m \in (DOMAIN names) \ {b}})],
                 b + 1)

(* Lines 105-109: every bone whose name is a key of the table gets the     *)
(* table's name; a bone's parent is a reference to the bone, so it follows *)
(* the rename.                                                             *)
RenamedBones(bones) ==
  LET old == [b \in DOMAIN bones |-> bones[b].name]
      new == NamesFrom(old, 1)
      NewOf(n) == IF \E p \in DOMAIN old : old[p] = n
                  THEN new[CHOOSE p \in DOMAIN old : old[p] = n]
                  ELSE translate(n)
  IN [b \in DOMAIN bones |->
        [name |-> new[b],
         parent |-> IF bones[b].parent = NoName THEN NoName ELSE NewOf(bones[b].parent)]]

(* renamed_count of lines 104-109. *)
RenamedCount(bones) == Cardinality({b \in DOMAIN bones : bones[b].name \in BoneKeys})

(* Lines 95-112 on the scene: nothing without a skeleton object, else the  *)
(* object's bones renamed.  No other object of the scene is written.       *)
rename_bones_to_ybot_format(sc, id) ==
  IF id = NoId \/ ObjectOf(sc, id).type # "ARMATURE" THEN sc
  ELSE Put(sc, [ObjectOf(sc, id) EXCEPT !.bones = RenamedBones(@)])

(* Lines 169-173, 178-179: the FBX of the job is not on disk. *)
ConvertSkipMissing ==
  /\ script = "convert" /\ pc = "c_loop" /\ job <= Len(Worklist)
  /\ job \notin onDisk
  /\ files' = Append(files, Missing)
  /\ Report("skipping", 0)
  /\ job' = job + 1
  /\ UNCHANGED <<script, onDisk, pc, i, scene, actionName, armature, actions, selected,
                 activeObj, outputs>>

(* Lines 173-175 and 117: the FBX is on disk; convert_fbx_to_glb starts by *)
(* clearing the scene.                                                     *)
ConvertClear ==
  /\ script = "convert" /\ pc = "c_loop" /\ job <= Len(Worklist)
  /\ job \in onDisk
  /\ read_factory_settings
  /\ armature' = NoId
  /\ pc' = "c_import"
  /\ UNCHANGED <<script, onDisk, job, i, actions, files, outputs, log>>

(* Faulty variant: the export call sits right after the import. *)
ConvertImportAndExport ==
  /\ script = "convert" /\ pc = "c_import"
  /\ \E a \in FbxAssets :
       /\ scene' = scene \o ImportedObjects(a, job, 0)
       /\ actionName' = WithActions(actionName, ImportedActions(a, job, 0))
       /\ files' = Append(files, Present(a))
  /\ outputs' = (job :> Exported(scene', actionName', "ACTIVE_ACTIONS")) @@ outputs
  /\ Report("importing", 0)
  /\ pc' = "c_find"
  /\ UNCHANGED <<script, onDisk, job, i, armature, actions, selected, activeObj>>

(* Lines 120-126: import the FBX with its animation. *)
ConvertImport ==
  /\ script = "convert" /\ pc = "c_import"
  /\ \E a \in FbxAssets :
       /\ scene' = scene \o ImportedObjects(a, job, 0)
       /\ actionName' = WithActions(actionName, ImportedActions(a, job, 0))
       /\ files' = Append(files, Present(a))
  /\ Report("importing", 0)
  /\ pc' = "c_find"
  /\ UNCHANGED <<script, onDisk, job, i, armature, actions, selected, activeObj, outputs>>

(* Lines 128-139: the first skeleton object, and whether it is animated. *)
HasAction(sc, id) ==
  /\ id # NoId
  /\ ObjectOf(sc, id).animData
  /\ ObjectOf(sc, id).action # NoId

ConvertFindArmature ==
  /\ script = "convert" /\ pc = "c_find"
  /\ LET k == FirstArmature(scene, NoId)
         found == IF k = 0 THEN NoId ELSE scene[k].id
     IN /\ armature' = found
        /\ IF HasAction(scene, found)
           THEN Report("found_animation", 0)
           ELSE Report("warning_no_animation", 0)
  /\ pc' = "c_rename"
  /\ UNCHANGED <<script, onDisk, job, i, scene, actionName, actions, selected, activeObj,
                 files, outputs>>

(* Line 142: rename the bones to match the Y-Bot model. *)
ConvertRenameBones ==
  /\ script = "convert" /\ pc = "c_rename"
  /\ scene' = rename_bones_to_ybot_format(scene, armature)
  /\ IF armature = NoId
     THEN UNCHANGED <<activeObj, log>>
     ELSE /\ activeObj' = armature
          /\ Report("renamed_bones", RenamedCount(ObjectOf(scene, armature).bones))
  /\ pc' = "c_action"
  /\ UNCHANGED <<script, onDisk, job, i, actionName, armature, actions, selected, files, outputs>>

(* Lines 144-147: the action gets the name Bevy loads. *)
ConvertRenameAction ==
  /\ script = "convert" /\ pc = "c_action"
  /\ IF HasAction(scene, armature)
     THEN /\ actionName' = [actionName EXCEPT ![ObjectOf(scene, armature).action] = "Animation"]
          /\ Report("renamed_action", 0)
     ELSE UNCHANGED <<actionName, log>>
  /\ pc' = "c_export"
  /\ UNCHANGED <<script, onDisk, job, i, scene, armature, actions, selected, activeObj,
                 files, outputs>>

(* Lines 149-166: select everything and export the GLB with the active     *)
(* actions; the loop goes on with the next job.                            *)
ConvertExport ==
  /\ script = "convert" /\ pc = "c_export"
  /\ select_all
  /\ activeObj' = IF armature # NoId THEN armature ELSE activeObj
  /\ outputs' = (job :> Exported(scene, actionName, "ACTIVE_ACTIONS")) @@ outputs
  /\ Report("done", 0)
  /\ job' = job + 1
  /\ pc' = "c_loop"
  /\ UNCHANGED <<script, onDisk, i, scene, actionName, armature, actions, files>>

(* Faulty variant: the exception is not caught and ends the script. *)
ConvertCatchAborts ==
  /\ script = "convert" /\ pc \in {"c_import", "c_rename", "c_export"}
  /\ pc = "c_rename" => armature # NoId
  /\ CASE pc = "c_export" ->
            /\ select_all
            /\ activeObj' = IF armature # NoId THEN armature ELSE activeObj
            /\ Report("traceback", 0)
            /\ UNCHANGED <<files, scene>>
       [] pc = "c_rename" ->
            /\ activeObj' = armature
            /\ \E renamed \in BOOLEAN :
                 scene' = IF renamed THEN rename_bones_to_ybot_format(scene, armature)
                          ELSE scene
            /\ Report("traceback", 0)
            /\ UNCHANGED <<selected, files>>
       [] OTHER ->
            /\ files' = Append(files, Unreadable)
            /\ log' = log \o << <<"importing", job, 0>>, <<"traceback", job, 0>> >>
            /\ UNCHANGED <<selected, activeObj, scene>>
  /\ pc' = "exit"
  /\ UNCHANGED <<script, onDisk, job, i, actionName, armature, actions, outputs>>

(* Lines 174-177: the import (after the line of 120 was printed), a mode   *)
(* switch of the bone rename (line 102, before any bone is renamed, or     *)
(* line 111, after the bones are renamed and before the count is printed)  *)
(* or the export raises; the handler prints the error and the loop goes on *)
(* with the next job.                                                      *)
ConvertCatch ==
  /\ script = "convert" /\ pc \in {"c_import", "c_rename", "c_export"}
  /\ pc = "c_rename" => armature # NoId
  /\ CASE pc = "c_export" ->
            /\ select_all
            /\ activeObj' = IF armature # NoId THEN armature ELSE activeObj
            /\ Report("error_converting", 0)
            /\ UNCHANGED <<files, scene>>
       [] pc = "c_rename" ->
            /\ activeObj' = armature
            /\ \E renamed \in BOOLEAN :
                 scene' = IF renamed THEN rename_bones_to_ybot_format(scene, armature)
                          ELSE scene
            /\ Report("error_converting", 0)
            /\ UNCHANGED <<selected, files>>
       [] OTHER ->
            /\ files' = Append(files, Unreadable)
            /\ log' = log \o << <<"importing", job, 0>>, <<"error_converting", job, 0>> >>
            /\ UNCHANGED <<selected, activeObj, scene>>
  /\ job' = job + 1
  /\ pc' = "c_loop"
  /\ UNCHANGED <<script, onDisk, i, actionName, armature, actions, outputs>>

(* Line 181: the worklist is exhausted. *)
ConvertAllDone ==
  /\ script = "convert" /\ pc = "c_loop" /\ job > Len(Worklist)
  /\ Report("all_complete", 0)
  /\ pc' = "exit"
  /\ UNCHANGED <<script, onDisk, job, i, scene, actionName, armature, actions, selected,
                 activeObj, files, outputs>>

NextConvert ==
  \/ ConvertSkipMissing \/ ConvertClear \/ ConvertImport \/ ConvertFindArmature
  \/ ConvertRenameBones \/ ConvertRenameAction \/ ConvertExport \/ ConvertCatch
  \/ ConvertAllDone

(***************************************************************************)
(* clean_ybot.py                                                           *)
(***************************************************************************)

(* obj.matrix_world: the object's own transform on top of its parent's. *)
RECURSIVE World(_, _)
World(sc, id) ==
  IF id = NoId \/ id \notin Ids(sc) THEN 0
  ELSE ObjectOf(sc, id).local + World(sc, ObjectOf(sc, id).parent)

(* Lines 19-20: clear scene. *)
CleanClear ==
  /\ script = "clean" /\ pc = "y_clear"
  /\ read_factory_settings
  /\ pc' = "y_import"
  /\ UNCHANGED <<script, onDisk, job, i, armature, actions, files, outputs, log>>

(* Lines 22-24: import the Y-Bot model. *)
CleanImport ==
  /\ script = "clean" /\ pc = "y_import"
  /\ \E a \in GlbAssets :
       /\ scene' = scene \o ImportedObjects(a, job, 0)
       /\ actionName' = WithActions(actionName, ImportedActions(a, job, 0))
       /\ files' = Append(files, Present(a))
  /\ Report("importing", 0)
  /\ pc' = "y_find"
  /\ UNCHANGED <<script, onDisk, job, i, armature, actions, selected, activeObj, outputs>>

(* Lines 29-39: find the armature; without one, report the error and      *)
(* exit(1).                                                                *)
CleanFindArmature ==
  /\ script = "clean" /\ pc = "y_find"
  /\ LET k == FirstArmature(scene, NoId)
     IN IF k = 0
        THEN /\ armature' = NoId
             /\ Report("error_no_armature", 0)
             /\ pc' = "exit_1"
        ELSE /\ armature' = scene[k].id
             /\ Report("found_armature", 0)
             /\ pc' = "y_rename"
  /\ UNCHANGED <<script, onDisk, job, i, scene, actionName, actions, selected, activeObj,
                 files, outputs>>

(* Lines 41-45: the armature is renamed to "Armature". *)
CleanRenameArmature ==
  /\ script = "clean" /\ pc = "y_rename"
  /\ scene' = Put(scene, [ObjectOf(scene, armature) EXCEPT !.name = "Armature"])
  /\ Report("renamed_armature", 0)
  /\ pc' = "y_root_joint"
  /\ UNCHANGED <<script, onDisk, job, i, actionName, armature, actions, selected, activeObj,
                 files, outputs>>

(* Faulty variant: the top bone is taken for the wrapper whatever its name. *)
WithoutTopBone(bones) ==
  IF bones = << >> THEN bones
  ELSE LET reparented ==
             [b \in DOMAIN bones |->
                IF bones[b].parent = bones[1].name
                THEN [bones[b] EXCEPT !.parent = NoName] ELSE bones[b]]
       IN Tail(reparented)

(* Lines 52-62: the children of _rootJoint move to the root level and the  *)
(* bone is removed; without such a bone nothing changes.                   *)
WithoutRootJoint(bones) ==
  IF \E b \in DOMAIN bones : bones[b].name = "_rootJoint"
  THEN LET reparented ==
             [b \in DOMAIN bones |->
                IF bones[b].parent = "_rootJoint"
                THEN [bones[b] EXCEPT !.parent = NoName] ELSE bones[b]]
       IN SelectSeq(reparented, LAMBDA x : x.name # "_rootJoint")
  ELSE bones

(* Lines 47-64: edit mode, remove the _rootJoint bone, object mode. *)
CleanRemoveRootJoint ==
  /\ script = "clean" /\ pc = "y_root_joint"
  /\ activeObj' = armature
  /\ scene' = Put(scene, [ObjectOf(scene, armature) EXCEPT !.bones = WithoutRootJoint(@)])
  /\ pc' = "y_unparent"
  /\ UNCHANGED <<script, onDisk, job, i, actionName, armature, actions, selected, files,
                 outputs, log>>

(* Faulty variant: the parent is cleared and the stored world transform is *)
(* not written back.                                                       *)
UnparentedInPlace(sc, id) ==
  IF ObjectOf(sc, id).parent # NoId
  THEN Put(sc, [ObjectOf(sc, id) EXCEPT !.parent = NoId])
  ELSE sc

(* Lines 66-72: the armature leaves its parent and keeps its world         *)
(* transform.                                                              *)
Unparented(sc, id) ==
  IF ObjectOf(sc, id).parent # NoId
  THEN Put(sc, [ObjectOf(sc, id) EXCEPT !.parent = NoId, !.local = World(sc, id)])
  ELSE sc

CleanUnparent ==
  /\ script = "clean" /\ pc = "y_unparent"
  /\ scene' = Unparented(scene, armature)
  /\ IF ObjectOf(scene, armature).parent # NoId
     THEN Report("unparented", 0)
     ELSE UNCHANGED log
  /\ pc' = "y_discard"
  /\ UNCHANGED <<script, onDisk, job, i, actionName, armature, actions, selected, activeObj,
                 files, outputs>>

(* Lines 74-86: every object that is neither the armature nor a mesh is    *)
(* removed.                                                                *)
(* Faulty variant: every skeleton object is kept, not only the armature. *)
DiscardedKeepsSkeletons(sc, keep) ==
  SelectSeq(sc, LAMBDA o : o.type \in {"MESH", "ARMATURE"})

RECURSIVE Discarded(_, _)
Discarded(sc, keep) ==
  LET del == {k \in DOMAIN sc : sc[k].id # keep /\ sc[k].type # "MESH"}
  IN IF del = {} THEN sc
     ELSE Discarded(RemoveAt(sc, CHOOSE k \in del : \A m \in del : k <= m), keep)

CleanDiscard ==
  /\ script = "clean" /\ pc = "y_discard"
  /\ scene' = Discarded(scene, armature)
  /\ Report("deleted", Len(scene) - Len(Discarded(scene, armature)))
  /\ pc' = "y_export"
  /\ UNCHANGED <<script, onDisk, job, i, actionName, armature, actions, selected, activeObj,
                 files, outputs>>

(* Lines 88-108: select everything and export the GLB. *)
CleanExport ==
  /\ script = "clean" /\ pc = "y_export"
  /\ select_all
  /\ activeObj' = armature
  /\ outputs' = (job :> Exported(scene, actionName, "ACTIONS")) @@ outputs
  /\ Report("done", 0)
  /\ pc' = "exit"
  /\ UNCHANGED <<script, onDisk, job, i, scene, actionName, armature, actions, files>>

(* The import (after the line of 23 was printed; the path is not tested,   *)
(* so the file may be absent), a mode switch of the root joint removal     *)
(* (line 50, before the bones are touched, or line 64, after them) or the  *)
(* export raises: nothing catches it in this script.                       *)
CleanRaise ==
  /\ script = "clean" /\ pc \in {"y_import", "y_root_joint", "y_export"}
  /\ CASE pc = "y_import" ->
            /\ \E f \in {Missing, Unreadable} : files' = Append(files, f)
            /\ log' = log \o << <<"importing", job, 0>>, <<"traceback", job, 0>> >>
            /\ UNCHANGED <<selected, activeObj, scene>>
       [] pc = "y_root_joint" ->
            /\ activeObj' = armature
            /\ \E removed \in BOOLEAN :
                 scene' = IF removed
                          THEN Put(scene, [ObjectOf(scene, armature) EXCEPT
                                             !.bones = WithoutRootJoint(@)])
                          ELSE scene
            /\ Report("traceback", 0)
            /\ UNCHANGED <<selected, files>>
       [] OTHER ->
            /\ select_all /\ activeObj' = armature
            /\ Report("traceback", 0)
            /\ UNCHANGED <<files, scene>>
  /\ pc' = "y_crashed"
  /\ UNCHANGED <<script, onDisk, job, i, actionName, armature, actions, outputs>>

NextClean ==
  \/ CleanClear \/ CleanImport \/ CleanFindArmature \/ CleanRenameArmature
  \/ CleanRemoveRootJoint \/ CleanUnparent \/ CleanDiscard \/ CleanExport
  \/ CleanRaise

(***************************************************************************)
(* The three scripts                                                       *)
(***************************************************************************)

StartOf(s) == CASE s = "merge" -> "m_clear" [] s = "convert" -> "c_loop" [] s = "clean" -> "y_clear"

Init ==
  /\ script \in {"merge", "convert", "clean"}
  /\ onDisk \in Directories(script)
  /\ pc = StartOf(script)
  /\ job = 1
  /\ i = 0
  /\ scene = StartupScene
  /\ actionName = NoActions
  /\ armature = NoId
  /\ actions = << >>
  /\ selected = {}
  /\ activeObj = NoId
  /\ files = << >>
  /\ outputs = NoOutputs
  /\ log = << >>

Next == NextMerge \/ NextConvert \/ NextClean

Spec == Init /\ [][Next]_vars

(***************************************************************************)
(* rename_bones_to_ybot_format on its own, over every bone name            *)
(***************************************************************************)

AllBoneNames == BoneKeys \cup BoneValues \cup {"_rootJoint", "Root"}

(* Skeletons of at most MaxBones bones with distinct names, each bone the  *)
(* child of the one before it.                                             *)
NameLists ==
  {s \in UNION {[1..n -> AllBoneNames] : n \in 0..MaxBones} :
     \A a, b \in DOMAIN s : a # b => s[a] # s[b]}

Chain(s) == [b \in DOMAIN s |-> Bone(s[b], IF b = 1 THEN NoName ELSE s[b - 1])]

InitRename ==
  /\ script = "rename"
  /\ onDisk = {}
  /\ pc = "r_0"
  /\ job = 1
  /\ i = 0
  /\ \E t \in {"ARMATURE", "MESH"}, s \in NameLists, none \in BOOLEAN :
       /\ t = "MESH" => s = << >>
       /\ scene = ImportedObjects(<<FileObject(t, "Armature", FALSE, Chain(s), 0, 0)>>, 1, 0)
       /\ armature = IF none THEN NoId ELSE <<1, 0, 1>>
  /\ actionName = NoActions
  /\ actions = << >>
  /\ selected = {}
  /\ activeObj = NoId
  /\ files = << >>
  /\ outputs = NoOutputs
  /\ log = << >>

(* One call of rename_bones_to_ybot_format(armature). *)
RenameCall ==
  /\ script = "rename" /\ pc \in {"r_0", "r_1"}
  /\ scene' = rename_bones_to_ybot_format(scene, armature)
  /\ IF armature = NoId \/ ObjectOf(scene, armature).type # "ARMATURE"
     THEN UNCHANGED <<activeObj, log>>
     ELSE /\ activeObj' = armature
          /\ Report("renamed_bones", RenamedCount(ObjectOf(scene, armature).bones))
  /\ pc' = IF pc = "r_0" THEN "r_1" ELSE "r_2"
  /\ UNCHANGED <<script, onDisk, job, i, actionName, armature, actions, selected, files, outputs>>

SpecRename == InitRename /\ [][RenameCall]_vars

(***************************************************************************)
(* What a run shows: its printed lines, the files it read, its outputs     *)
(***************************************************************************)

Lines(what) == SelectSeq(log, LAMBDA e : e[1] = what)

LinesOf(what, j) == SelectSeq(log, LAMBDA e : e[1] = what /\ e[2] = j)

Arguments(es) == [k \in DOMAIN es |-> es[k][3]]

(* The entries of animation_files for which "Found action" was printed. *)
FoundEntries == Arguments(Lines("found_action"))

(* The entries of animation_files for which "Skipping" was printed. *)
SkippedEntries == Arguments(Lines("skipping"))

Increasing(s) == \A a, b \in DOMAIN s : a < b => s[a] < s[b]

ClipNames(es) == [k \in DOMAIN es |-> animation_files[es[k]][2]]

TrackNames(o) == [t \in DOMAIN o.tracks |-> o.tracks[t].name]

Skeletons(f) == {k \in DOMAIN f.asset : f.asset[k].type = "ARMATURE"}

AnimatedSkeletons(f) == {k \in Skeletons(f) : f.asset[k].anim}

(* Every file read so far carries at most one skeleton. *)
SingleSkeletonFiles == \A k \in DOMAIN files : Cardinality(Skeletons(files[k])) <= 1

(* merge: files[1] is the base model, files[n + 1] the FBX of entry n. *)
SourceLookedUp(n) == n + 1 \in DOMAIN files

SourceOf(n) == files[n + 1]

(* The entries so far whose FBX is on disk and brings an animated skeleton. *)
AnimatedEntries ==
  SelectSeq([n \in 1..(Len(files) - 1) |-> n],
            LAMBDA n : AnimatedSkeletons(SourceOf(n)) # {})

Failed(j) ==
  \E k \in DOMAIN log :
    log[k][2] = j /\ log[k][1] \in {"error_no_armature", "traceback", "error_converting"}

(* What the printed lines say about job j. *)
Outcome(j) ==
  IF Failed(j) THEN "failed"
  ELSE IF <<"skipping", j, 0>> \in {log[k] : k \in DOMAIN log} THEN "skipped"
  ELSE IF LinesOf("done", j) = << >> THEN "none"
  ELSE IF \E k \in DOMAIN log : log[k][1] = "skipping" /\ log[k][2] = j /\ log[k][3] > 0
       THEN "succeeded_with_skips"
  ELSE "succeeded"

(* merge: the tracks have been pushed onto the target skeleton (the run is *)
(* at the export, past it, or ended by an export that raised).             *)
Merged ==
  /\ script = "merge" /\ armature # NoId
  /\ \/ pc \in {"m_export", "m_returned", "exit"}
     \/ pc = "m_crashed" /\ Lines("added_tracks") # << >>

Target == ObjectOf(scene, armature)

(***************************************************************************)
(* C1: after the merge the target skeleton's track names are the clip      *)
(* names of the entries whose clip was imported ("Found action"), in list  *)
(* order -- for files with one skeleton each these are exactly the entries *)
(* whose FBX exists and is animated -- and the active clip is the clip of  *)
(* the first track; the exported file carries the same clip sequence.      *)
(***************************************************************************)
C1_TrackOrder ==
  Merged =>
    /\ TrackNames(Target) = ClipNames(FoundEntries)
    /\ Increasing(FoundEntries)
    /\ SingleSkeletonFiles => FoundEntries = AnimatedEntries
    /\ Target.tracks # << >> =>
         /\ Target.action = Target.tracks[1].action
         /\ actionName[Target.action] = Target.tracks[1].name
    /\ job \in DOMAIN outputs => outputs[job].clips = ClipNames(FoundEntries)

C1_Witness ==
  /\ Merged /\ pc = "exit"
  /\ TrackNames(Target) = <<"Idle", "Walk", "Run", "Sprint", "Jump">>
  /\ outputs[job].clips = <<"Idle", "Walk", "Run", "Sprint", "Jump">>
  /\ actionName[Target.action] = "Idle"

(***************************************************************************)
(* C2: a missing FBX skips only its own entry: the entry is reported as    *)
(* skipped and gets no track, every other entry is still looked up, the    *)
(* other sources (one animated skeleton each) get their tracks in list     *)
(* order, the export happens and the job ends as succeeded with skips.     *)
(***************************************************************************)
C2_MissingSourceSkipped ==
  Merged =>
    /\ Len(files) = 1 + Len(animation_files)
    /\ \A n \in 1..Len(animation_files) :
         ~SourceOf(n).exists =>
           /\ \E k \in DOMAIN SkippedEntries : SkippedEntries[k] = n
           /\ \A k \in DOMAIN FoundEntries : FoundEntries[k] # n
    /\ SingleSkeletonFiles => TrackNames(Target) = ClipNames(AnimatedEntries)
    /\ pc \in {"m_returned", "exit"} =>
         /\ job \in DOMAIN outputs
         /\ SkippedEntries # << >> => Outcome(job) = "succeeded_with_skips"

C2_Witness ==
  /\ Merged /\ pc = "exit"
  /\ ~SourceOf(2).exists
  /\ outputs[job].clips = <<"Idle", "Run", "Sprint", "Jump">>
  /\ Outcome(job) = "succeeded_with_skips"

(***************************************************************************)
(* C3: a job whose main asset has no skeleton object.                      *)
(***************************************************************************)

(* The main asset of job j: the FBX of the job in convert, the model else. *)
MainLookedUp(j) == IF script = "convert" THEN j \in DOMAIN files ELSE 1 \in DOMAIN files

MainOf(j) == IF script = "convert" THEN files[j] ELSE files[1]

NoSkeletonJob(j) ==
  /\ MainLookedUp(j)
  /\ MainOf(j).readable
  /\ Skeletons(MainOf(j)) = {}

(* Job j has run to its end. *)
Over(j) ==
  \/ j < job
  \/ pc \in {"m_returned", "m_crashed", "y_crashed", "exit", "exit_1"}

(* C3 as stated: in every script, a job whose asset has no skeleton writes *)
(* no output file and ends as failed.                                      *)
C3_AsStated ==
  \A j \in 1..job :
    NoSkeletonJob(j) =>
      /\ j \notin DOMAIN outputs
      /\ Over(j) => Outcome(j) = "failed"

(***************************************************************************)
(* C4: the batch driver of convert_fbx_to_glb.py ends every job of the     *)
(* worklist exactly once and in order (skipped, done or failed), a missing *)
(* FBX or an exception only moves it on to the next job, it stops only     *)
(* after the last job, and every step brings it closer to that end.        *)
(***************************************************************************)
JobEnds == SelectSeq(log, LAMBDA e : e[1] \in {"skipping", "done", "error_converting"})

StepOf(p) ==
  CASE p = "c_loop" -> 0 [] p = "c_import" -> 1 [] p = "c_find" -> 2
    [] p = "c_rename" -> 3 [] p = "c_action" -> 4 [] p = "c_export" -> 5
    [] OTHER -> 6

(* How far the batch has come: 6 steps to a job. *)
Progress == IF pc = "exit" THEN 6 * (Len(Worklist) + 1) + 1 ELSE 6 * job + StepOf(pc)

C4_Batch ==
  script = "convert" =>
    /\ job \in 1..(Len(Worklist) + 1)
    /\ [k \in DOMAIN JobEnds |-> JobEnds[k][2]] = [k \in 1..(job - 1) |-> k]
    /\ Len(files) = IF pc \in {"c_loop", "c_import", "exit"} THEN job - 1 ELSE job
    /\ pc = "exit" => job = Len(Worklist) + 1 /\ Lines("all_complete") # << >>
    /\ pc # "exit" => ENABLED NextConvert

C4_BatchRunsEveryJob ==
  /\ []C4_Batch
  /\ [][script = "convert" => Progress' > Progress]_vars

C4_Witness ==
  /\ script = "convert" /\ pc = "exit"
  /\ Outcome(1) = "failed"
  /\ Outcome(2) = "skipped"
  /\ Outcome(3) = "succeeded" /\ 3 \in DOMAIN outputs
  /\ Len(JobEnds) = Len(fbx_files)
  /\ Outcome(Len(fbx_files)) = "skipped"

(***************************************************************************)
(* C5: after rename_bones_to_ybot_format has run on a skeleton, running it *)
(* again renames no bone and leaves the scene as it is; no value of the    *)
(* table is a key.                                                         *)
(***************************************************************************)
IsSkeleton(id) == id # NoId /\ ObjectOf(scene, id).type = "ARMATURE"

C5_RenameIdempotent ==
  script = "rename" /\ pc \in {"r_1", "r_2"} =>
    /\ rename_bones_to_ybot_format(scene, armature) = scene
    /\ IsSkeleton(armature) =>
         /\ RenamedCount(ObjectOf(scene, armature).bones) = 0
         /\ pc = "r_2" => Lines("renamed_bones")[2][3] = 0
    /\ BoneKeys \cap BoneValues = {}

C5_Witness ==
  /\ script = "rename" /\ pc = "r_2"
  /\ IsSkeleton(armature)
  /\ Len(ObjectOf(scene, armature).bones) = 1
  /\ ObjectOf(scene, armature).bones[1].name = "mixamorig:Hips_01"
  /\ Lines("renamed_bones")[1][3] = 1
  /\ Lines("renamed_bones")[2][3] = 0

(***************************************************************************)
(* C6: rename_bones_to_ybot_format never fails, for any bone names, and a  *)
(* bone whose name is no key of the table keeps its name (no bone is added *)
(* or lost).                                                               *)
(***************************************************************************)
KeepsOtherNames ==
  \A k \in DOMAIN scene :
    /\ DOMAIN scene'[k].bones = DOMAIN scene[k].bones
    /\ \A b \in DOMAIN scene[k].bones :
         scene[k].bones[b].name \notin BoneKeys =>
           scene'[k].bones[b].name = scene[k].bones[b].name

C6_IdentityDefault ==
  /\ [](script = "rename" /\ pc \in {"r_0", "r_1"} => ENABLED RenameCall)
  /\ [][RenameCall => KeepsOtherNames]_vars

C6_Witness ==
  /\ script = "rename" /\ pc = "r_1"
  /\ IsSkeleton(armature)
  /\ Len(ObjectOf(scene, armature).bones) = 1
  /\ ObjectOf(scene, armature).bones[1].name = "_rootJoint"
  /\ Lines("renamed_bones")[1][3] = 0

(***************************************************************************)
(* C7: when a job is about to import its asset the scene holds no object,  *)
(* no action and no selection, and while the job runs every object and     *)
(* action of the scene was created by this job.                            *)
(***************************************************************************)
ImportSteps == {"m_import", "c_import", "y_import"}

JobSteps ==
  {"m_find", "m_loop", "m_scan", "m_export", "c_find", "c_rename", "c_action",
   "c_export", "y_find", "y_rename", "y_root_joint", "y_unparent", "y_discard",
   "y_export"}

C7_NoLeakBetweenJobs ==
  /\ pc \in ImportSteps =>
       /\ scene = << >>
       /\ DOMAIN actionName = {}
       /\ selected = {}
       /\ activeObj = NoId
  /\ pc \in JobSteps =>
       /\ \A k \in DOMAIN scene : scene[k].id[1] = job
       /\ \A a \in DOMAIN actionName : a[1] = job
       /\ selected \subseteq Ids(scene)
       /\ activeObj \in Ids(scene) \cup {NoId}

C7_Witness ==
  /\ script = "convert" /\ pc = "c_import" /\ job = 3
  /\ 1 \in DOMAIN outputs
  /\ Outcome(2) = "skipped"
  /\ scene = << >>

(***************************************************************************)
(* C8: an output file exists only for a job that has passed its export,    *)
(* the export being the job's last step (the file holds the scene as the   *)
(* job leaves it); a job that ended as failed has no output file.          *)
(***************************************************************************)
ExportMode == CASE script = "merge" -> "NLA_TRACKS" [] script = "convert" -> "ACTIVE_ACTIONS"
                [] OTHER -> "ACTIONS"

C8_ExportLast ==
  /\ \A j \in DOMAIN outputs :
       /\ j < job \/ pc \in {"m_returned", "exit"}
       /\ LinesOf("done", j) # << >>
       /\ ~Failed(j)
  /\ \A j \in 1..job : Failed(j) => j \notin DOMAIN outputs
  /\ \A j \in 1..job :
       j \in DOMAIN outputs /\ (script = "convert" => pc = "c_loop" /\ j = job - 1) =>
         outputs[j] = Exported(scene, actionName, ExportMode)

C8_Witness ==
  /\ script = "convert" /\ pc = "c_loop" /\ job = 3
  /\ Failed(1) /\ 1 \notin DOMAIN outputs
  /\ 2 \in DOMAIN outputs
  /\ outputs[2].active = <<"Animation">>

(***************************************************************************)
(* C9: a merge in which no clip was imported (for files with one skeleton  *)
(* each: every FBX missing or without animation) still exports the model:  *)
(* no track, the model's own active action untouched, the job not failed.  *)
(***************************************************************************)
(* The action the target skeleton came with. *)
OwnAction == IF files[1].asset[armature[3]].anim THEN armature ELSE NoId

C9_ZeroClips ==
  /\ Merged /\ SingleSkeletonFiles /\ AnimatedEntries = << >> => FoundEntries = << >>
  /\ Merged /\ FoundEntries = << >> =>
       /\ Target.tracks = << >>
       /\ Target.action = OwnAction
       /\ pc \in {"m_returned", "exit"} =>
            /\ job \in DOMAIN outputs
            /\ outputs[job].clips = << >>
            /\ outputs[job].skeletons # << >>
            /\ Outcome(job) \in {"succeeded", "succeeded_with_skips"}
            /\ Lines("done") = << <<"done", job, 0>> >>

C9_Witness ==
  /\ Merged /\ pc = "exit"
  /\ ~SourceOf(1).exists
  /\ SourceOf(2).exists /\ Skeletons(SourceOf(2)) # {} /\ AnimatedSkeletons(SourceOf(2)) = {}
  /\ OwnAction # NoId
  /\ outputs[job].clips = << >>

(***************************************************************************)
(* C10: a source whose skeleton has no action is skipped, not fatal.       *)
(* merge: it leaves no clip and no track (for files with one skeleton each *)
(* its entry gets no "Found action"), the later entries are still looked   *)
(* up and the job is exported and not failed.  convert: the job gets the   *)
(* warning line and goes on to the export.                                 *)
(***************************************************************************)
Still(f) == f.readable /\ Skeletons(f) # {} /\ AnimatedSkeletons(f) = {}

(* The first skeleton of the file carries an action. *)
FirstSkeletonAnimated(f) ==
  \E k \in AnimatedSkeletons(f) : \A m \in Skeletons(f) : k <= m

AllTracks == Flatten([k \in DOMAIN scene |-> scene[k].tracks])

C10_NoAnimationSkipped ==
  /\ Merged =>
       \A n \in 1..Len(animation_files) :
         SourceLookedUp(n) /\ Still(SourceOf(n)) =>
           /\ \A k \in DOMAIN actions : actions[k][2] # n
           /\ \A t \in DOMAIN AllTracks : AllTracks[t].action[2] # n
           /\ SingleSkeletonFiles => \A k \in DOMAIN FoundEntries : FoundEntries[k] # n
           /\ Len(files) = 1 + Len(animation_files)
           /\ pc \in {"m_returned", "exit"} =>
                job \in DOMAIN outputs /\ Outcome(job) # "failed"
  /\ script = "convert" =>
       \A j \in 1..(job - 1) :
         files[j].readable /\ ~FirstSkeletonAnimated(files[j]) =>
           /\ LinesOf("warning_no_animation", j) # << >>
           /\ LinesOf("renamed_action", j) = << >>
           /\ j \in DOMAIN outputs \/ LinesOf("error_converting", j) # << >>
           /\ j \in DOMAIN outputs => 
                /\ Outcome(j) = "succeeded"
                /\ \A c \in DOMAIN outputs[j].clips : outputs[j].clips[c] # "Animation"
                /\ AnimatedSkeletons(files[j]) = {} => outputs[j].clips = << >>

C10_Witness ==
  /\ Merged /\ pc = "exit"
  /\ Still(SourceOf(1))
  /\ SingleSkeletonFiles
  /\ outputs[job].clips = <<"Walk", "Run", "Sprint", "Jump">>

(***************************************************************************)
(* C11: when clean_ybot.py has normalized the hierarchy (the script is at  *)
(* its export or past it, also when the export raised), the skeleton has   *)
(* exactly one root bone, no bone named _rootJoint, and the skeleton       *)
(* object has no parent.                                                   *)
(***************************************************************************)
Normalized ==
  /\ script = "clean"
  /\ \/ pc \in {"y_export", "exit"}
     \/ pc = "y_crashed" /\ Lines("deleted") # << >>

RootBones(o) == {b \in DOMAIN o.bones : o.bones[b].parent = NoName}

C11_SingleRoot ==
  Normalized =>
    /\ Cardinality(RootBones(ObjectOf(scene, armature))) = 1
    /\ \A b \in DOMAIN ObjectOf(scene, armature).bones :
         ObjectOf(scene, armature).bones[b].name # "_rootJoint"
    /\ ObjectOf(scene, armature).parent = NoId

(***************************************************************************)
(* C12: after the discard step of clean_ybot.py (at the export, after it,  *)
(* and when the export raised) the scene holds the                         *)
(* armature (named "Armature") as its only skeleton object, every mesh the *)
(* model file brought, in file order, and no other object; the printed     *)
(* count is the number of objects removed.                                 *)
(***************************************************************************)
MeshIds(sc) == [k \in DOMAIN SelectSeq2(sc, "MESH") |-> SelectSeq2(sc, "MESH")[k].id]

C12_DiscardKeepsSkeletonAndMeshes ==
  Normalized =>
    /\ \A k \in DOMAIN scene :
         \/ scene[k].id = armature /\ scene[k].type = "ARMATURE" /\ scene[k].name = "Armature"
         \/ scene[k].type = "MESH"
    /\ Cardinality({k \in DOMAIN scene : scene[k].type = "ARMATURE"}) = 1
    /\ MeshIds(scene) = MeshIds(ImportedObjects(files[1].asset, job, 0))
    /\ Lines("deleted") = << <<"deleted", job, Len(files[1].asset) - Len(scene)>> >>

C12_Witness ==
  /\ Normalized /\ pc = "exit"
  /\ Cardinality(Skeletons(files[1])) = 2
  /\ Len(scene) = 2
  /\ outputs[job].meshes = 1 /\ Len(outputs[job].skeletons) = 1

(***************************************************************************)
(* C13: between two source imports of merge_animations.py (the loop is at  *)
(* its head) the objects of the scene are exactly the objects the base     *)
(* model brought: every object a source introduced has been removed again. *)
(***************************************************************************)
BaseObjects == Ids(ImportedObjects(files[1].asset, job, 0))

C13_ImportLeavesOnlyClip ==
  script = "merge" /\ pc = "m_loop" /\ armature # NoId => Ids(scene) = BaseObjects

(***************************************************************************)
(* C14: when the batch of convert_fbx_to_glb.py has ended, every job has   *)
(* been reported as succeeded, skipped or failed, and a summary line has   *)
(* been printed whose three counts are the numbers of jobs that ended as   *)
(* succeeded, skipped and failed.                                          *)
(***************************************************************************)
Count(o) == Cardinality({j \in 1..Len(Worklist) : Outcome(j) = o})

C14_Summary ==
  script = "convert" /\ pc = "exit" =>
    /\ \A j \in 1..Len(Worklist) : Outcome(j) \in {"succeeded", "skipped", "failed"}
    /\ Count("succeeded") + Count("skipped") + Count("failed") = Len(Worklist)
    /\ \E k \in DOMAIN log :
         /\ log[k][1] = "summary"
         /\ log[k][3] = <<Count("succeeded"), Count("skipped"), Count("failed")>>

(***************************************************************************)
(* C17: when the armature clean_ybot.py found has no bone named _rootJoint *)
(* the removal step can run and changes no bone: from then on the armature *)
(* has the bones, with the parents, the file gave it, also when a mode     *)
(* switch of the step raises; the run goes on through the remaining steps  *)
(* and exports them, with no error line, and only a call that raises (a    *)
(* mode switch, the export) ends it without an output.                     *)
(***************************************************************************)
FileBones == files[1].asset[armature[3]].bones

NoSentinel == \A b \in DOMAIN FileBones : FileBones[b].name # "_rootJoint"

C17_NoWrapperIsNoOp ==
  script = "clean" /\ armature # NoId /\ NoSentinel =>
    /\ ObjectOf(scene, armature).bones = FileBones
    /\ pc = "y_root_joint" => ENABLED CleanRemoveRootJoint
    /\ Lines("error_no_armature") = << >>
    /\ pc \in {"y_rename", "y_root_joint", "y_unparent", "y_discard", "y_export",
               "exit", "y_crashed"}
    /\ pc = "y_crashed" =>
         /\ job \notin DOMAIN outputs
         /\ Lines("traceback") = << <<"traceback", job, 0>> >>
         /\ Lines("deleted") = << >> => Lines("unparented") = << >>
    /\ pc \notin {"y_crashed"} => Lines("traceback") = << >>
    /\ pc = "exit" =>
         /\ job \in DOMAIN outputs
         /\ outputs[job].skeletons = << [b \in DOMAIN FileBones |-> FileBones[b].name] >>

C17_Witness ==
  /\ script = "clean" /\ pc = "exit"
  /\ armature # NoId /\ NoSentinel
  /\ outputs[job].skeletons = << <<"mixamorig:Hips_01", "mixamorig:Spine_02">> >>

(***************************************************************************)
(* C18: the unparent step of clean_ybot.py leaves the armature without a   *)
(* parent and with the world transform it had before the step; when the    *)
(* armature has no parent the step changes nothing and prints nothing.     *)
(***************************************************************************)
C18_UnparentKeepsWorld ==
  [][CleanUnparent =>
       /\ World(scene', armature) = World(scene, armature)
       /\ ObjectOf(scene', armature).parent = NoId
       /\ ObjectOf(scene, armature).parent = NoId => scene' = scene /\ log' = log
       /\ ObjectOf(scene, armature).parent # NoId =>
            \A k \in DOMAIN scene : scene[k].id # armature => scene'[k] = scene[k]]_vars

C18_Witness ==
  /\ script = "clean" /\ pc = "y_discard"
  /\ Lines("unparented") # << >>
  /\ files[1].asset[armature[3]].parent # 0
  /\ files[1].asset[armature[3]].local = 2
  /\ ObjectOf(scene, armature).parent = NoId
  /\ ObjectOf(scene, armature).local = 3
  /\ World(scene, armature) = 3

(***************************************************************************)
(* C19: in merge_animations.py every action taken at list entry n is an    *)
(* action the import of source n brought, and in the merged asset the      *)
(* track named after entry n carries such an action: no action comes from  *)
(* the base model or from an object an earlier import left behind.         *)
(***************************************************************************)
(* The source whose import created the action: 0 is the base model. *)
SourceOfAction(a) == a[2]

C19_ClipProvenance ==
  script = "merge" =>
    /\ Len(actions) = Len(FoundEntries)
    /\ \A k \in DOMAIN actions : SourceOfAction(actions[k]) = FoundEntries[k]
    /\ Merged =>
         \A t \in DOMAIN Target.tracks :
           \E n \in 1..Len(animation_files) :
             /\ animation_files[n][2] = Target.tracks[t].name
             /\ SourceOfAction(Target.tracks[t].action) = n

(***************************************************************************)
(* rename_bones_to_ybot_format on skeletons of several bones               *)
(***************************************************************************)

(* Source names, their table names, a suffixed name and a name outside    *)
(* the table.                                                              *)
ChainNames ==
  {"mixamorig:Hips", "mixamorig:Hips_01", "mixamorig:Hips_01.001", "mixamorig:Spine",
   "mixamorig:Spine_02", "Root"}

(* Skeletons of at most MaxChain bones with pairwise distinct names. *)
ChainLists ==
  {s \in UNION {[1..n -> ChainNames] : n \in 0..MaxChain} :
     \A a, b \in DOMAIN s : a # b => s[a] # s[b]}

(* The skeleton and a mesh parented to it, as rename_bones_to_ybot_format  *)
(* gets them.                                                              *)
InitChain ==
  /\ script = "rename"
  /\ onDisk = {}
  /\ pc = "r_0"
  /\ job = 1
  /\ i = 0
  /\ \E s \in ChainLists :
       scene = ImportedObjects(<<FileObject("ARMATURE", "Armature", FALSE, Chain(s), 0, 0),
                                 FileObject("MESH", "Beta_Surface", FALSE, << >>, 1, 0)>>,
                               1, 0)
  /\ armature = <<1, 0, 1>>
  /\ actionName = NoActions
  /\ actions = << >>
  /\ selected = {}
  /\ activeObj = NoId
  /\ files = << >>
  /\ outputs = NoOutputs
  /\ log = << >>

SpecChain == InitChain /\ [][RenameCall]_vars

(***************************************************************************)
(* C20: no two keys of BONE_NAME_MAP translate to the same name and no     *)
(* key's translation is another key; a skeleton whose bone names are       *)
(* pairwise distinct has pairwise distinct bone names, and as many bones,  *)
(* after rename_bones_to_ybot_format.                                      *)
(***************************************************************************)
DistinctNames(bones) ==
  \A a, b \in DOMAIN bones : a # b => bones[a].name # bones[b].name

GoneSkeletons ==
  {k \in DOMAIN scene : scene[k].type = "ARMATURE" /\ scene[k].id \notin Ids(scene')}

TargetKept ==
  script = "merge" /\ armature # NoId =>
    /\ armature = <<job, 0, FirstArmature(ImportedObjects(files[1].asset, job, 0), NoId)>>
    /\ armature \in Ids(scene)
    /\ Target.type = "ARMATURE"
    /\ Target.bones = files[1].asset[armature[3]].bones
    /\ job \in DOMAIN outputs => outputs[job].skeletons[1] = BoneNames(Target)

C21_TargetSkeletonPreserved ==
  /\ []TargetKept
  /\ [][script = "merge" /\ armature # NoId =>
          /\ armature' = armature
          /\ Cardinality(GoneSkeletons) <= 1
          /\ \A k \in GoneSkeletons : scene[k].id # armature]_vars

C21_Witness ==
  /\ Merged /\ pc = "exit"
  /\ FoundEntries = <<1, 2, 3>>
  /\ Cardinality(Skeletons(files[1])) = 2
  /\ armature \in Ids(scene)
  /\ outputs[job].skeletons[1] = BoneNames(Target)
  /\ Len(scene) < Len(files[1].asset) + Len(files[2].asset) + Len(files[3].asset)
                     + Len(files[4].asset)
====
